---- MODULE Spec2Model ----
(***************************************************************************)
(* The sticky-header middleware of middlewares/stickyheader.go.            *)
(*                                                                         *)
(* One behaviour of the model is one request/response exchange: the        *)
(* request phase of StickyHeader.ServeHTTP, then the calls the next        *)
(* handler makes on the decorated writer (backendHeaderWriter), then the   *)
(* handler's return.                                                       *)
(*                                                                         *)
(* The source file holds two historical variants of the middleware:        *)
(*   variant 1  lines   1-100  (Set-Cookie entries split on "=")           *)
(*   variant 2  lines 102-225  (cookie-syntax parsing, /socket.io cookie   *)
(*                              deletion, Path=/ on the synthesized cookie)*)
(* Both are modelled; the variable "variant" says which one runs.          *)
(*                                                                         *)
(* A string is a sequence of one-character strings, so that Split,         *)
(* TrimSpace and Index are computed as the Go library computes them.       *)
(***************************************************************************)
EXTENDS Integers, Sequences, FiniteSets, TLC

VARIABLES
    variant,        \* 1 or 2: which variant of the source file runs
    inbound,        \* the Cookie header line of the request as received
    query,          \* req.URL.Query(): sequence of [k, v] pairs
    flusher,        \* the underlying writer implements http.Flusher:
                    \*   "yes" or "no" once a type assertion has tested it
    hijacker,       \* the underlying writer implements http.Hijacker, likewise
    initExpose,     \* Access-Control-Expose-Headers values before ServeHTTP
    pc,             \* "request", "handler", "done", "hijacked", "panic"
    reqCookie,      \* the Cookie header line of the request passed downward
    backendFromQueryString,   \* field of backendHeaderWriter
    hdr,            \* w.ResponseWriter.Header(): [backend, expose, setCookie]
    wroteHeader,    \* the underlying writer has transmitted status and headers
    sent,           \* what it transmitted: [by, status, backend, expose, setCookie]
    handlerCookies, \* the Set-Cookie entries the next handler itself added
    pre,            \* hdr just before the latest call on the decorated writer
    lastOp,         \* the latest operation: [op, result]
    whCalls,        \* number of WriteHeader calls on the decorated writer
    ops             \* number of calls the next handler has made

vars == << variant, inbound, query, flusher, hijacker, initExpose, pc,
           reqCookie, backendFromQueryString, hdr, wroteHeader, sent,
           handlerCookies, pre, lastOp, whCalls, ops >>

----------------------------------------------------------------------------
(* Bounds of the model.                                                    *)

MaxHandlerOps == 3     \* calls the next handler makes before it returns
MaxWriteHeader == 2    \* WriteHeader calls on the decorated writer

----------------------------------------------------------------------------
(* Program constants (stickyheader.go:10-14, 112-116).                     *)

headerName == << "X","-","T","r","a","e","f","i","k","-","B","a","c","k","e","n","d" >>
queryName  == << "X","-","T","r","a","e","f","i","k","-","B","a","c","k","e","n","d" >>
cookieName == << "_","T","R","A","E","F","I","K","_","B","A","C","K","E","N","D" >>

----------------------------------------------------------------------------
(* package strings                                                         *)

\* strings.Index(s, c) for a one-byte c: 0-based index of the first c, or -1
Index(s, c) ==
    IF \E i \in 1..Len(s) : s[i] = c
    THEN (CHOOSE i \in 1..Len(s) : s[i] = c /\ \A k \in 1..(i-1) : s[k] # c) - 1
    ELSE -1

\* strings.Split(s, sep) for a one-byte sep: n separators give n+1 pieces
RECURSIVE Split(_, _)
Split(s, sep) ==
    LET j == Index(s, sep)
    IN  IF j < 0 THEN << s >>
        ELSE << SubSeq(s, 1, j) >> \o Split(SubSeq(s, j + 2, Len(s)), sep)

\* strings.TrimSpace(s)
RECURSIVE TrimLeft(_)
TrimLeft(s) ==
    IF s # << >> /\ Head(s) = " " THEN TrimLeft(Tail(s)) ELSE s

RECURSIVE TrimRight(_)
TrimRight(s) ==
    IF s # << >> /\ s[Len(s)] = " " THEN TrimRight(SubSeq(s, 1, Len(s) - 1)) ELSE s

TrimSpace(s) == TrimRight(TrimLeft(s))

\* strings.Join([]string{a, b}, ", ")
Join2(a, b) == a \o << ",", " " >> \o b

\* s without the bytes of the set bad, in order
RECURSIVE Without(_, _)
Without(s, bad) ==
    IF s = << >> THEN << >>
    ELSE (IF Head(s) \in bad THEN << >> ELSE << Head(s) >>) \o Without(Tail(s), bad)

----------------------------------------------------------------------------
(* package net/http, as called by the middleware and by its tests.  Every  *)
(* byte of the model's alphabet is printable ASCII, so the range tests     *)
(* 0x20 <= b < 0x7f of the library hold for all of them.                   *)

\* the bytes validCookieValueByte rejects
InvalidValueBytes == { "\"", ";", "\\" }

\* the bytes validCookiePathByte rejects
InvalidPathBytes == { ";" }

\* the separators of RFC 2616: the bytes that are not token bytes
NonTokenBytes ==
    { "(", ")", "<", ">", "@", ",", ";", ":", "\\", "\"", "/", "[", "]", "?",
      "=", "{", "}", " " }

\* http.isCookieNameValid
isCookieNameValid(name) ==
    name # << >> /\ \A i \in 1..Len(name) : name[i] \notin NonTokenBytes

\* http.sanitizeCookieValue: invalid bytes are dropped; a value holding a
\* space or a comma is wrapped in double quotes
sanitizeCookieValue(v) ==
    LET s == Without(v, InvalidValueBytes)
    IN  IF s = << >> THEN s
        ELSE IF \E i \in 1..Len(s) : s[i] \in { " ", "," }
             THEN << "\"" >> \o s \o << "\"" >>
             ELSE s

\* http.parseCookieValue(raw, allowDoubleQuote = true): [ok, value]
parseCookieValue(raw) ==
    LET s == IF Len(raw) > 1 /\ raw[1] = "\"" /\ raw[Len(raw)] = "\""
             THEN SubSeq(raw, 2, Len(raw) - 1) ELSE raw
    IN  IF \E i \in 1..Len(s) : s[i] \in InvalidValueBytes
        THEN [ok |-> FALSE, value |-> << >>]
        ELSE [ok |-> TRUE, value |-> s]

\* The HTTP date of time.Now().Add(-100 * time.Hour): one opaque byte.
PastDate == << "<date>" >>

\* http.Cookie literal: the fields the middleware and its tests set
MkCookie(name, value, path, expires) ==
    [Name |-> name, Value |-> value, Path |-> path, Expires |-> expires]

\* (*http.Cookie).String(): name=value[; Path=path][; Expires=date]
CookieString(c) ==
    IF ~ isCookieNameValid(c.Name) THEN << >>
    ELSE c.Name \o << "=" >> \o sanitizeCookieValue(c.Value)
         \o (IF c.Path # << >>
             THEN << ";", " ", "P", "a", "t", "h", "=" >> \o Without(c.Path, InvalidPathBytes)
             ELSE << >>)
         \o (IF c.Expires
             THEN << ";", " ", "E", "x", "p", "i", "r", "e", "s", "=" >> \o PastDate
             ELSE << >>)

\* http.SetCookie(w, c) on the Set-Cookie list of w.Header()
SetCookie(list, c) ==
    IF CookieString(c) # << >> THEN Append(list, CookieString(c)) ELSE list

\* name and value of one "name=value" fragment of a Cookie or Set-Cookie
\* line, as http.readCookies and http.readSetCookies cut it: [ok, name, value]
CutPair(frag) ==
    LET p == TrimSpace(frag)
        j == Index(p, "=")
        name == IF j < 0 THEN p ELSE SubSeq(p, 1, j)
        raw  == IF j < 0 THEN << >> ELSE SubSeq(p, j + 2, Len(p))
        val  == parseCookieValue(raw)
    IN  [ok    |-> p # << >> /\ isCookieNameValid(name) /\ val.ok,
         name  |-> name,
         value |-> val.value]

\* (*http.Request).Cookie(name) on one Cookie header line:
\* [ok |-> err = nil, value]; ok = FALSE is http.ErrNoCookie
RequestCookie(line, name) ==
    LET parts == Split(TrimSpace(line), ";")
        hit(i) == CutPair(parts[i]).ok /\ CutPair(parts[i]).name = name
    IN  IF \E i \in 1..Len(parts) : hit(i)
        THEN LET i == CHOOSE i \in 1..Len(parts) :
                          hit(i) /\ \A k \in 1..(i-1) : ~ hit(k)
             IN  [ok |-> TRUE, value |-> CutPair(parts[i]).value]
        ELSE [ok |-> FALSE, value |-> << >>]

\* (*http.Request).AddCookie(c) on the Cookie header line
AddCookie(line, c) ==
    LET s == c.Name \o << "=" >> \o sanitizeCookieValue(c.Value)
    IN  IF line # << >> THEN line \o << ";", " " >> \o s ELSE s

\* url.Values.Get(key): the first value of key, "" when there is none
QueryGet(q, key) ==
    IF \E i \in 1..Len(q) : q[i].k = key
    THEN q[CHOOSE i \in 1..Len(q) : q[i].k = key /\ \A j \in 1..(i-1) : q[j].k # key].v
    ELSE << >>

----------------------------------------------------------------------------
(* middlewares/stickyheader.go                                             *)

\* backendHeaderWriter.getResponseCookieByName, variant 1 (lines 78-91):
\* each entry is split on every "="; elements[1] of an entry with no "="
\* is an index out of range, a run-time panic.
RECURSIVE getResponseCookieByNameV1(_)
getResponseCookieByNameV1(setCookies) ==
    IF setCookies = << >> THEN [panic |-> FALSE, value |-> << >>]
    ELSE LET elements == Split(Head(setCookies), "=")
         IN  IF Len(elements) < 2 THEN [panic |-> TRUE, value |-> << >>]
             ELSE IF elements[1] = cookieName
                  THEN [panic |-> FALSE, value |-> elements[2]]
                  ELSE getResponseCookieByNameV1(Tail(setCookies))

\* backendHeaderWriter.getResponseCookieByName, variant 2 (lines 191-216)
RECURSIVE getResponseCookieByNameV2(_)
getResponseCookieByNameV2(setCookies) ==
    IF setCookies = << >> THEN [panic |-> FALSE, value |-> << >>]
    ELSE LET parts == Split(TrimSpace(Head(setCookies)), ";")
             part0 == TrimSpace(parts[1])
             j     == Index(part0, "=")
         IN  IF Len(parts) = 1 /\ parts[1] = << >>
             THEN getResponseCookieByNameV2(Tail(setCookies))
             ELSE IF j < 0
             THEN getResponseCookieByNameV2(Tail(setCookies))
             ELSE IF SubSeq(part0, 1, j) = cookieName
             THEN [panic |-> FALSE, value |-> SubSeq(part0, j + 2, Len(part0))]
             ELSE getResponseCookieByNameV2(Tail(setCookies))

\* getResponseCookieByName of the variant v.  The name parameter of the
\* source is shadowed in the loop; the comparison is with cookieName.
getResponseCookieByName(v, setCookies) ==
    IF v = 1 THEN getResponseCookieByNameV1(setCookies)
    ELSE getResponseCookieByNameV2(setCookies)

\* backendHeaderWriter.addOrAppendHeader, on the values of one header:
\* Header().Get is the first value, Header().Set replaces all values
addOrAppendHeader(values, value) ==
    LET currentValue == IF values = << >> THEN << >> ELSE values[1]
    IN  IF currentValue # << >> THEN << Join2(currentValue, value) >>
        ELSE << value >>

\* QueryCandidate without the test of req.Cookie: the query string is
\* consulted even when the request carries the affinity cookie
QueryCandidateIgnoringCookie(cookieLine, q) ==
    QueryGet(q, queryName)

\* StickyHeader.ServeHTTP, lines 58-71 / 169-182: the query candidate
\* recorded for a request with Cookie line cookieLine and query q
QueryCandidate(cookieLine, q) ==
    IF ~ RequestCookie(cookieLine, cookieName).ok
    THEN QueryGet(q, queryName)
    ELSE << >>

\* StickyHeader.ServeHTTP, lines 66-69 / 177-180: the Cookie line of the
\* request passed to the next handler
RequestPassedDown(cookieLine, q) ==
    IF QueryCandidate(cookieLine, q) # << >>
    THEN AddCookie(cookieLine,
                   MkCookie(cookieName, QueryCandidate(cookieLine, q), << >>, FALSE))
    ELSE cookieLine

\* the cookie that deletes the /socket.io cookie (lines 138, 145)
tempCookie ==
    MkCookie(cookieName, << >>,
             << "/", "s", "o", "c", "k", "e", "t", ".", "i", "o" >>, TRUE)

\* the Set-Cookie entries variant v adds before it sets the header
\* (lines 138-139, 145-146): none in variant 1
DeleteSocketIO(v, setCookies) ==
    IF v = 2 THEN SetCookie(setCookies, tempCookie) ELSE setCookies

\* the cookie synthesized from the query candidate (lines 40, 150)
SyncCookie(v, backend) ==
    MkCookie(cookieName, backend, IF v = 2 THEN << "/" >> ELSE << >>, FALSE)

\* backendHeaderWriter.WriteHeader up to the call of the underlying
\* writer (lines 34-43 / 136-153): the headers it leaves, given that
\* getResponseCookieByName did not panic
ResponsePhase(v, h, fromQuery) ==
    LET backendLocation == getResponseCookieByName(v, h.setCookie).value
    IN  IF backendLocation # << >>
        THEN [h EXCEPT !.setCookie = DeleteSocketIO(v, h.setCookie),
                       !.backend   = << backendLocation >>]
        ELSE IF fromQuery # << >>
        THEN [h EXCEPT !.setCookie =
                           SetCookie(DeleteSocketIO(v, h.setCookie),
                                     SyncCookie(v, fromQuery)),
                       !.backend   = << fromQuery >>]
        ELSE h

\* what the underlying writer transmits with the headers h
Transmit(by, status, h) ==
    [by |-> by, status |-> status, backend |-> h.backend,
     expose |-> h.expose, setCookie |-> h.setCookie]

NotSent == [by |-> "none", status |-> 0, backend |-> << >>,
            expose |-> << >>, setCookie |-> << >>]

----------------------------------------------------------------------------
(* The inputs of one exchange.                                             *)

StatusOK == 200

\* Cookie header lines of the inbound request: none, the affinity cookie,
\* the affinity cookie with an empty value
InboundLines ==
    { << >>, cookieName \o << "=", "c" >>, cookieName \o << "=" >> }

\* parsed query strings: none, a clean token, a token holding a byte that is
\* not valid in a cookie value (?X-Traefik-Backend=a%3Bb), another key
Queries ==
    { << >>,
      << [k |-> queryName, v |-> << "b" >>] >>,
      << [k |-> queryName, v |-> << "a", ";", "b" >>] >>,
      << [k |-> << "o" >>, v |-> << "b" >>] >> }

\* Access-Control-Expose-Headers values set by earlier middlewares
InitExposes ==
    { << >>, << << "F" >> >>, << << "F" >>, << "G" >> >> }

\* cookies the next handler sets with http.SetCookie
HandlerCookieSet ==
    { MkCookie(cookieName, << "a" >>, << >>, FALSE),
      MkCookie(cookieName, << "a" >>, << "/", "p" >>, FALSE),
      MkCookie(cookieName, << >>, << >>, FALSE),
      MkCookie(<< "o" >>, << "b" >>, << >>, FALSE) }

\* Set-Cookie entries the next handler adds with Header().Add: an entry
\* with no "=", an empty entry
RawEntries ==
    { << "g" >>, << >> }

----------------------------------------------------------------------------
(* The exchange.                                                           *)

Init ==
    /\ variant \in { 1, 2 }
    /\ inbound \in InboundLines
    /\ query \in Queries
    /\ flusher = "untested"
    /\ hijacker = "untested"
    /\ initExpose \in InitExposes
    /\ pc = "request"
    /\ reqCookie = inbound
    /\ backendFromQueryString = << >>
    /\ hdr = [backend |-> << >>, expose |-> initExpose, setCookie |-> << >>]
    /\ wroteHeader = FALSE
    /\ sent = NotSent
    /\ handlerCookies = << >>
    /\ pre = hdr
    /\ lastOp = [op |-> "none", result |-> "none"]
    /\ whCalls = 0
    /\ ops = 0

\* StickyHeader.ServeHTTP up to the call of the next handler
ServeHTTP ==
    /\ pc = "request"
    /\ backendFromQueryString' = QueryCandidate(inbound, query)
    /\ reqCookie' = RequestPassedDown(inbound, query)
    /\ hdr' = [hdr EXCEPT !.expose = addOrAppendHeader(hdr.expose, headerName)]
    /\ pc' = "handler"
    /\ lastOp' = [op |-> "ServeHTTP", result |-> "ok"]
    /\ UNCHANGED << variant, inbound, query, flusher, hijacker, initExpose,
                    wroteHeader, sent, handlerCookies, pre, whCalls, ops >>

\* the next handler calls http.SetCookie(w, c)
HandlerSetCookie ==
    /\ pc = "handler" /\ ops < MaxHandlerOps
    /\ \E c \in HandlerCookieSet :
          /\ hdr' = [hdr EXCEPT !.setCookie = SetCookie(hdr.setCookie, c)]
          /\ handlerCookies' = SetCookie(handlerCookies, c)
    /\ lastOp' = [op |-> "SetCookie", result |-> "ok"]
    /\ ops' = ops + 1
    /\ UNCHANGED << variant, inbound, query, flusher, hijacker, initExpose, pc,
                    reqCookie, backendFromQueryString, wroteHeader, sent, pre,
                    whCalls >>

\* the next handler calls w.Header().Add("Set-Cookie", e)
HandlerAddRaw ==
    /\ pc = "handler" /\ ops < MaxHandlerOps
    /\ \E e \in RawEntries :
          /\ hdr' = [hdr EXCEPT !.setCookie = Append(hdr.setCookie, e)]
          /\ handlerCookies' = Append(handlerCookies, e)
    /\ lastOp' = [op |-> "AddRaw", result |-> "ok"]
    /\ ops' = ops + 1
    /\ UNCHANGED << variant, inbound, query, flusher, hijacker, initExpose, pc,
                    reqCookie, backendFromQueryString, wroteHeader, sent, pre,
                    whCalls >>

\* the next handler calls w.Header().Set("Access-Control-Expose-Headers", "H")
HandlerSetExpose ==
    /\ pc = "handler" /\ ops < MaxHandlerOps
    /\ hdr' = [hdr EXCEPT !.expose = << << "H" >> >>]
    /\ lastOp' = [op |-> "SetExpose", result |-> "ok"]
    /\ ops' = ops + 1
    /\ UNCHANGED << variant, inbound, query, flusher, hijacker, initExpose, pc,
                    reqCookie, backendFromQueryString, wroteHeader, sent,
                    handlerCookies, pre, whCalls >>

\* backendHeaderWriter.WriteHeader(status).  A panic of
\* getResponseCookieByName unwinds the handler before any header is set.
\* The underlying writer transmits on its first WriteHeader only.
WriteHeader ==
    /\ pc = "handler" /\ ops < MaxHandlerOps /\ whCalls < MaxWriteHeader
    /\ pre' = hdr
    /\ whCalls' = whCalls + 1
    /\ ops' = ops + 1
    /\ IF getResponseCookieByName(variant, hdr.setCookie).panic
       THEN /\ pc' = "panic"
            /\ lastOp' = [op |-> "WriteHeader", result |-> "panic"]
            /\ UNCHANGED << hdr, wroteHeader, sent >>
       ELSE /\ pc' = pc
            /\ lastOp' = [op |-> "WriteHeader", result |-> "ok"]
            /\ hdr' = ResponsePhase(variant, hdr, backendFromQueryString)
            /\ wroteHeader' = TRUE
            /\ sent' = IF wroteHeader THEN sent
                       ELSE Transmit("WriteHeader", StatusOK, hdr')
    /\ UNCHANGED << variant, inbound, query, flusher, hijacker, initExpose,
                    reqCookie, backendFromQueryString, handlerCookies >>

\* w.Write(body): backendHeaderWriter declares no Write, so the call is
\* the embedded ResponseWriter's, which transmits status 200 and the
\* headers as they are when nothing was transmitted before.
Write ==
    /\ pc = "handler" /\ ops < MaxHandlerOps
    /\ wroteHeader' = TRUE
    /\ sent' = IF wroteHeader THEN sent ELSE Transmit("Write", StatusOK, hdr)
    /\ lastOp' = [op |-> "Write", result |-> "forwarded"]
    /\ ops' = ops + 1
    /\ UNCHANGED << variant, inbound, query, flusher, hijacker, initExpose, pc,
                    reqCookie, backendFromQueryString, hdr, handlerCookies,
                    pre, whCalls >>

\* The outcomes of the type assertion w.ResponseWriter.(T): the dynamic
\* type of the underlying writer is fixed for the exchange, so an
\* assertion already made gives the same outcome again.
Asserted(capability) ==
    IF capability = "untested" THEN { "yes", "no" } ELSE { capability }

\* backendHeaderWriter.Flush(): forwarded to an http.Flusher, which
\* transmits status 200 and the headers when nothing was transmitted
\* before; otherwise the call returns having done nothing.
Flush ==
    /\ pc = "handler" /\ ops < MaxHandlerOps
    /\ flusher' \in Asserted(flusher)
    /\ IF flusher' = "yes"
       THEN /\ wroteHeader' = TRUE
            /\ sent' = IF wroteHeader THEN sent ELSE Transmit("Flush", StatusOK, hdr)
            /\ lastOp' = [op |-> "Flush", result |-> "forwarded"]
       ELSE /\ lastOp' = [op |-> "Flush", result |-> "dropped"]
            /\ UNCHANGED << wroteHeader, sent >>
    /\ ops' = ops + 1
    /\ UNCHANGED << variant, inbound, query, hijacker, initExpose, pc,
                    reqCookie, backendFromQueryString, hdr, handlerCookies,
                    pre, whCalls >>

\* backendHeaderWriter.Hijack(): the unchecked type assertion
\* w.ResponseWriter.(http.Hijacker) panics when the underlying writer is
\* no http.Hijacker.
Hijack ==
    /\ pc = "handler" /\ ops < MaxHandlerOps
    /\ hijacker' \in Asserted(hijacker)
    /\ IF hijacker' = "yes"
       THEN /\ pc' = "hijacked"
            /\ lastOp' = [op |-> "Hijack", result |-> "forwarded"]
       ELSE /\ pc' = "panic"
            /\ lastOp' = [op |-> "Hijack", result |-> "panic"]
    /\ ops' = ops + 1
    /\ UNCHANGED << variant, inbound, query, flusher, initExpose,
                    reqCookie, backendFromQueryString, hdr, wroteHeader, sent,
                    handlerCookies, pre, whCalls >>

\* sh.next.ServeHTTP returns: the server finishes the response on the
\* underlying writer, transmitting status 200 and the headers when the
\* handler caused no transmission.
Return ==
    /\ pc = "handler"
    /\ pc' = "done"
    /\ wroteHeader' = TRUE
    /\ sent' = IF wroteHeader THEN sent ELSE Transmit("Return", StatusOK, hdr)
    /\ lastOp' = [op |-> "Return", result |-> "ok"]
    /\ UNCHANGED << variant, inbound, query, flusher, hijacker, initExpose,
                    reqCookie, backendFromQueryString, hdr, handlerCookies,
                    pre, whCalls, ops >>

Next ==
    \/ ServeHTTP
    \/ HandlerSetCookie
    \/ HandlerAddRaw
    \/ HandlerSetExpose
    \/ WriteHeader
    \/ Write
    \/ Flush
    \/ Hijack
    \/ Return

Spec == Init /\ [][Next]_vars

----------------------------------------------------------------------------
(* What a client reads: the helper of the tests.                           *)

\* http.readSetCookies on one Set-Cookie entry, name and value only:
\* [ok, name, value]
ReadSetCookie(entry) ==
    LET parts == Split(TrimSpace(entry), ";")
        part0 == TrimSpace(parts[1])
        j     == Index(part0, "=")
        name  == IF j < 0 THEN << >> ELSE SubSeq(part0, 1, j)
        val   == parseCookieValue(IF j < 0 THEN << >> ELSE SubSeq(part0, j + 2, Len(part0)))
    IN  [ok    |-> j >= 0 /\ isCookieNameValid(name) /\ val.ok,
         name  |-> name,
         value |-> val.value]

\* getResponseCookieByName(response, name) of the tests: the value of the
\* first cookie of response.Cookies() with that name, "" when there is none
ClientCookie(setCookies, name) ==
    LET hit(i) == ReadSetCookie(setCookies[i]).ok /\ ReadSetCookie(setCookies[i]).name = name
    IN  IF \E i \in 1..Len(setCookies) : hit(i)
        THEN ReadSetCookie(setCookies[CHOOSE i \in 1..Len(setCookies) :
                               hit(i) /\ \A k \in 1..(i-1) : ~ hit(k)]).value
        ELSE << >>

----------------------------------------------------------------------------
(* The cookie syntax the claims refer to: the name and the value of a      *)
(* Set-Cookie entry are the parts of its first ";"-fragment, trimmed,      *)
(* before and after its first "=".                                         *)

FirstFragment(entry) ==
    LET t == TrimSpace(entry)
        k == Index(t, ";")
    IN  TrimSpace(IF k < 0 THEN t ELSE SubSeq(t, 1, k))

RefPair(entry) ==
    LET frag == FirstFragment(entry)
        j    == Index(frag, "=")
    IN  IF j < 0 THEN [ok |-> FALSE, name |-> << >>, value |-> << >>]
        ELSE [ok    |-> TRUE,
              name  |-> SubSeq(frag, 1, j),
              value |-> SubSeq(frag, j + 2, Len(frag))]

RefNamed(entry, name) ==
    LET p == RefPair(entry) IN p.ok /\ p.name = name

\* some entry of the list is a cookie of that name
HasCookie(setCookies, name) ==
    \E i \in 1..Len(setCookies) : RefNamed(setCookies[i], name)

\* some entry of the list is a cookie of that name with a non-empty value
HasValuedCookie(setCookies, name) ==
    \E i \in 1..Len(setCookies) :
        RefNamed(setCookies[i], name) /\ RefPair(setCookies[i]).value # << >>

\* the value of the first entry of that name, "" when there is none
RefCookieValue(setCookies, name) ==
    IF HasCookie(setCookies, name)
    THEN RefPair(setCookies[CHOOSE i \in 1..Len(setCookies) :
                     /\ RefNamed(setCookies[i], name)
                     /\ \A k \in 1..(i-1) : ~ RefNamed(setCookies[k], name)]).value
    ELSE << >>

\* the items of the comma-separated values of a header
RECURSIVE Items(_)
Items(values) ==
    IF values = << >> THEN { }
    ELSE { TrimSpace(Split(Head(values), ",")[i]) :
               i \in 1..Len(Split(Head(values), ",")) } \cup Items(Tail(values))

InboundCookie == RequestCookie(inbound, cookieName)
ObservedCookie == RequestCookie(reqCookie, cookieName)
QueryValue == QueryGet(query, queryName)
FirstWriteHeader == lastOp.op = "WriteHeader" /\ whCalls = 1

----------------------------------------------------------------------------
(* The claims.                                                             *)

\* C1: after the first WriteHeader, for every Set-Cookie _TRAEFIK_BACKEND
\* with a non-empty value c that the next handler put on the response, the
\* header X-Traefik-Backend equals c, whatever the query carried.
C1_ResponseCookieWins ==
    FirstWriteHeader =>
        \A i \in 1..Len(handlerCookies) :
            (RefNamed(handlerCookies[i], cookieName)
                 /\ RefPair(handlerCookies[i]).value # << >>)
            => hdr.backend = << RefPair(handlerCookies[i]).value >>

\* C2: the _TRAEFIK_BACKEND cookie the next handler observes is (i) the
\* inbound cookie, unchanged, with no cookie injected and no candidate
\* recorded, when the request carries one; (ii) otherwise the non-empty
\* X-Traefik-Backend query value; (iii) otherwise no cookie.
C2_RequestPhasePrecedence ==
    pc # "request" =>
        /\ InboundCookie.ok =>
               /\ ObservedCookie = InboundCookie
               /\ reqCookie = inbound
               /\ backendFromQueryString = << >>
        /\ (~ InboundCookie.ok /\ QueryValue # << >>) =>
               /\ ObservedCookie.ok
               /\ ObservedCookie.value = QueryValue
        /\ (~ InboundCookie.ok /\ QueryValue = << >>) => ~ ObservedCookie.ok

\* C3: with no inbound cookie, a non-empty query value q and no
\* _TRAEFIK_BACKEND cookie set by the next handler, the response after
\* WriteHeader holds a Set-Cookie _TRAEFIK_BACKEND of value q and the
\* header X-Traefik-Backend = q, and a client reading the cookie gets q.
C3_QueryFallbackInSync ==
    (/\ FirstWriteHeader
     /\ ~ InboundCookie.ok
     /\ QueryValue # << >>
     /\ ~ HasCookie(handlerCookies, cookieName))
    => /\ \E i \in 1..Len(hdr.setCookie) :
              /\ RefNamed(hdr.setCookie[i], cookieName)
              /\ RefPair(hdr.setCookie[i]).value = QueryValue
       /\ hdr.backend = << QueryValue >>
       /\ ClientCookie(hdr.setCookie, cookieName) = QueryValue

\* C4: when the next handler sets no _TRAEFIK_BACKEND cookie and the
\* request records no query candidate (it carries the cookie already, or
\* no or an empty X-Traefik-Backend query value), the response carries no
\* X-Traefik-Backend header and no Set-Cookie for _TRAEFIK_BACKEND,
\* neither in its header map nor in what was transmitted.
C4_NoSignalPassThrough ==
    (/\ pc # "request"
     /\ QueryValue = << >> \/ InboundCookie.ok
     /\ ~ HasCookie(handlerCookies, cookieName))
    => /\ hdr.backend = << >>
       /\ ~ HasCookie(hdr.setCookie, cookieName)
       /\ sent.backend = << >>
       /\ ~ HasCookie(sent.setCookie, cookieName)

\* C4 witness: a request with the cookie and a query value, a handler that
\* set only other cookies, and WriteHeader has transmitted the headers.
C4_Witness ==
    /\ lastOp = [op |-> "WriteHeader", result |-> "ok"]
    /\ sent.by = "WriteHeader"
    /\ InboundCookie.ok
    /\ QueryValue # << >>
    /\ handlerCookies # << >>
    /\ ~ HasCookie(handlerCookies, cookieName)

\* C5: when the next handler set a non-empty _TRAEFIK_BACKEND cookie, the
\* Set-Cookie list after WriteHeader is exactly the list the handler
\* produced.
C5_HandlerCookiesUntouched ==
    (FirstWriteHeader /\ HasValuedCookie(handlerCookies, cookieName))
    => hdr.setCookie = handlerCookies

\* C6: the headers transmitted at WriteHeader declare X-Traefik-Backend in
\* Access-Control-Expose-Headers whatever the next handler did; a value
\* present before the middleware ran is kept, a single value V becoming
\* "V, X-Traefik-Backend", and an absent value becomes "X-Traefik-Backend".
C6_ExposeHeaderDeclared ==
    /\ sent.by = "WriteHeader" => headerName \in Items(sent.expose)
    /\ lastOp.op = "ServeHTTP" =>
           /\ \A i \in 1..Len(initExpose) : initExpose[i] \in Items(hdr.expose)
           /\ Len(initExpose) = 1 => hdr.expose = << Join2(initExpose[1], headerName) >>
           /\ initExpose = << >> => hdr.expose = << headerName >>

\* C7: when a token is resolvable (a non-empty _TRAEFIK_BACKEND cookie on
\* the response, or a recorded query candidate), what the underlying
\* writer transmitted on a WriteHeader, a first Write or a Flush carries
\* the X-Traefik-Backend header.
C7_HeaderBeforeTransmission ==
    (/\ sent.by \in { "WriteHeader", "Write", "Flush" }
     /\ \/ HasValuedCookie(sent.setCookie, cookieName)
        \/ backendFromQueryString # << >>)
    => sent.backend # << >>

\* C8: Flush and Hijack are forwarded when the underlying writer has the
\* capability, and otherwise the caller is told it is unsupported: the
\* call is neither dropped in silence nor a panic.
C8_CapabilityForwarding ==
    /\ lastOp.op = "Flush" =>
           lastOp.result = IF flusher = "yes" THEN "forwarded" ELSE "unsupported"
    /\ lastOp.op = "Hijack" =>
           lastOp.result = IF hijacker = "yes" THEN "forwarded" ELSE "unsupported"

\* C9: on every Set-Cookie list, getResponseCookieByName returns without
\* a panic the value of the first entry named _TRAEFIK_BACKEND by the
\* cookie syntax, and "" when there is none.
C9_CookieLookupTotal ==
    lastOp.op = "WriteHeader" =>
        /\ ~ getResponseCookieByName(variant, pre.setCookie).panic
        /\ getResponseCookieByName(variant, pre.setCookie).value
               = RefCookieValue(pre.setCookie, cookieName)

\* C10: a WriteHeader call after the first leaves the X-Traefik-Backend
\* header unchanged and adds no Set-Cookie entry.
C10_ResponsePhaseOnce ==
    (lastOp.op = "WriteHeader" /\ whCalls >= 2)
    => /\ hdr.backend = pre.backend
       /\ hdr.setCookie = pre.setCookie

====
